---------------------------- MODULE Spec2Model ----------------------------
(***************************************************************************)
(* Model of the safe_numerics ranged-value library: the interval engine,   *)
(* the checked results, the validated cast and the binary-operator         *)
(* dispatch of safe_base.                                                  *)
(*                                                                         *)
(* Data model.  A storage type is a record [sg, bits].  The platform of    *)
(* the model has 8-bit char types and a 16-bit int (the narrowest int the  *)
(* language allows): TLC's integers are 32 bits wide, and the exact sums   *)
(* and products of wider types could not be written down.  Every native    *)
(* operation keeps its width (Wrap).                                       *)
(***************************************************************************)
EXTENDS Integers, Sequences, FiniteSets, TLC

---------------------------------------------------------------------------
(* Storage types and their native limits                                   *)

CharBits == 8
IntBits == 2 * CharBits
UIntMaxDigits == 2 * IntBits

Int8T == [sg |-> TRUE, bits |-> CharBits]
UInt8T == [sg |-> FALSE, bits |-> CharBits]
IntT == [sg |-> TRUE, bits |-> IntBits]
UIntT == [sg |-> FALSE, bits |-> IntBits]

Pow2(n) == 2 ^ n

\* std::numeric_limits<R>::min() / max() / digits
TMin(R) == IF R.sg THEN 0 - Pow2(R.bits - 1) ELSE 0
TMax(R) == IF R.sg THEN Pow2(R.bits - 1) - 1 ELSE Pow2(R.bits) - 1
Digits(R) == IF R.sg THEN R.bits - 1 ELSE R.bits

Abs(x) == IF x < 0 THEN 0 - x ELSE x
Sgn(x) == IF x < 0 THEN 0 - 1 ELSE IF x = 0 THEN 0 ELSE 1
Min2(x, y) == IF x <= y THEN x ELSE y
Max2(x, y) == IF x >= y THEN x ELSE y

\* static_cast<R>(x) of an integer: the value modulo 2^bits
Wrap(R, x) ==
    LET m == Pow2(R.bits)
        y == x % m
    IN IF R.sg /\ y >= Pow2(R.bits - 1) THEN y - m ELSE y

\* C++ division truncates toward zero; % takes the sign of the dividend
TruncDiv(x, y) == Sgn(x) * Sgn(y) * (Abs(x) \div Abs(y))
TruncMod(x, y) == x - y * TruncDiv(x, y)

\* The exact product, as far as any storage type can tell: a product whose
\* magnitude exceeds Beyond is given as +-Beyond, which no type represents.
Beyond == Pow2(30)
ExactMul(x, y) ==
    IF x = 0 \/ y = 0 THEN 0
    ELSE IF Abs(x) > Beyond \div Abs(y) THEN Sgn(x) * Sgn(y) * Beyond
    ELSE x * y

\* (x * y) modulo 2^bits of R, computed in halves
MulWrap(R, x, y) ==
    LET m == Pow2(R.bits)
        h == Pow2(R.bits \div 2)
        xu == x % m
        yu == y % m
        yh == yu \div h
        yl == yu % h
    IN Wrap(R, (((xu * yh) % (m \div h)) * h + xu * yl) % m)

\* the bits of two unsigned patterns combined position by position
RECURSIVE BitCombine(_, _, _, _)
BitCombine(f, x, y, n) ==
    IF n = 0 THEN 0
    ELSE LET bx == x % 2
             by == y % 2
             b == CASE f = "or" -> IF bx + by > 0 THEN 1 ELSE 0
                    [] f = "and" -> bx * by
                    [] OTHER -> (bx + by) % 2
         IN b + 2 * BitCombine(f, x \div 2, y \div 2, n - 1)

---------------------------------------------------------------------------
(* C++ arithmetic conversions: the native promotion policy                 *)

\* integral promotion: every type narrower than int becomes int
Promote(R) == IF R.bits < IntBits THEN IntT ELSE R

\* decltype(T() + U()): the usual arithmetic conversions
UsualArithmetic(T, U) ==
    LET pt == Promote(T)
        pu == Promote(U)
    IN IF pt.sg = pu.sg THEN (IF pt.bits >= pu.bits THEN pt ELSE pu)
       ELSE LET us == IF pt.sg THEN pu ELSE pt
                si == IF pt.sg THEN pt ELSE pu
            IN IF us.bits >= si.bits THEN us ELSE si

\* native::*_result<T, U>::type for operand storage types T and U
native_result(op, T, U) ==
    IF op \in {"shl", "shr"} THEN Promote(T) ELSE UsualArithmetic(T, U)

---------------------------------------------------------------------------
(* Error kinds, action categories and exception policies                   *)

Success == "success"

ErrorKinds ==
    {"success", "positive_overflow_error", "negative_overflow_error",
     "underflow_error", "range_error", "domain_error",
     "precision_overflow_error", "negative_shift", "negative_value_shift",
     "shift_too_large", "uninitialized_value"}

\* a variant that sends every failure to the arithmetic-error category
make_safe_numerics_action_arithmetic(e) ==
    IF e = Success THEN "no_action" ELSE "arithmetic_error"

\* make_safe_numerics_action(e): the action category of an error kind
make_safe_numerics_action(e) ==
    CASE e \in {"negative_overflow_error", "underflow_error", "range_error",
                "domain_error", "positive_overflow_error",
                "precision_overflow_error"} -> "arithmetic_error"
      [] e \in {"negative_value_shift", "negative_shift", "shift_too_large"}
            -> "implementation_defined_behavior"
      [] e = "uninitialized_value" -> "uninitialized_value"
      [] OTHER -> "no_action"

\* exception_policy<AE, IDB, UB, UV>: one handler per category
exception_policy(ae, idb, ub, uv) ==
    [arithmetic_error |-> ae, implementation_defined_behavior |-> idb,
     undefined_behavior |-> ub, uninitialized_value |-> uv]

loose_exception_policy == exception_policy("throw", "ignore", "ignore", "ignore")
loose_trap_policy == exception_policy("trap", "ignore", "ignore", "ignore")
strict_exception_policy == exception_policy("throw", "throw", "throw", "ignore")
strict_trap_policy == exception_policy("trap", "trap", "trap", "trap")
default_exception_policy == strict_exception_policy
\* a user policy built from ignore_exception alone
ignore_all_policy == exception_policy("ignore", "ignore", "ignore", "ignore")

\* the handler dispatch_case<EP, a>::invoke calls for category a
Handler(EP, a) ==
    CASE a = "arithmetic_error" -> EP.arithmetic_error
      [] a = "implementation_defined_behavior" -> EP.implementation_defined_behavior
      [] a = "undefined_behavior" -> EP.undefined_behavior
      [] a = "uninitialized_value" -> EP.uninitialized_value
      [] OTHER -> "none"

\* The trail of one operation: the handler invocations so far, whether one
\* of them threw, and whether the program met undefined behaviour.
NoTrail == [log |-> << >>, thrown |-> FALSE]

\* a variant whose throwing handler returns to the caller
dispatch_returns(EP, e, trail) ==
    [log |-> Append(trail.log, [cat |-> make_safe_numerics_action(e), e |-> e]),
     thrown |-> FALSE]

\* dispatch<EP, E>(msg): invoke the handler of E's category; nothing runs
\* after a handler has thrown.
dispatch(EP, e, trail) ==
    IF trail.thrown THEN trail
    ELSE LET a == make_safe_numerics_action(e)
         IN [log |-> Append(trail.log, [cat |-> a, e |-> e]),
             thrown |-> Handler(EP, a) = "throw"]

---------------------------------------------------------------------------
(* checked_result<R>: a value or a failure                                  *)

\* checked_result(r) and checked_result(e, msg)
checked_result(r) == [e |-> Success, r |-> r]
checked_failure(e) == [e |-> e, r |-> 0]
exception(c) == c.e # Success

\* The result of a checked primitive: the exact result when the target's
\* range [lo, hi] holds it, else the overflow on the side it left by.
InRangeOrOverflow(lo, hi, x) ==
    IF x > hi THEN checked_failure("positive_overflow_error")
    ELSE IF x < lo THEN checked_failure("negative_overflow_error")
    ELSE checked_result(x)

\* heterogeneous_checked_operation<R, Min, Max, T, F>::cast(t), without F
checked_cast_range(lo, hi, t) == InRangeOrOverflow(lo, hi, t)

\* checked::cast<R>(t)
checked_cast(R, t) == checked_cast_range(TMin(R), TMax(R), t)

\* checked::add / subtract / multiply / divide / modulus / left_shift /
\* right_shift on two values of type R
checked_operation(op, R, t, u) ==
    CASE op = "add" -> InRangeOrOverflow(TMin(R), TMax(R), t + u)
      [] op = "sub" -> InRangeOrOverflow(TMin(R), TMax(R), t - u)
      [] op = "mul" -> InRangeOrOverflow(TMin(R), TMax(R), ExactMul(t, u))
      [] op = "div" ->
            IF u = 0 THEN checked_failure("domain_error")
            ELSE InRangeOrOverflow(TMin(R), TMax(R), TruncDiv(t, u))
      [] op = "mod" ->
            IF u = 0 THEN checked_failure("domain_error")
            ELSE InRangeOrOverflow(TMin(R), TMax(R), TruncMod(t, u))
      [] op = "shl" ->
            IF u < 0 THEN checked_failure("negative_shift")
            ELSE IF u >= R.bits THEN checked_failure("shift_too_large")
            ELSE IF t < 0 THEN checked_failure("negative_value_shift")
            ELSE InRangeOrOverflow(TMin(R), TMax(R), ExactMul(t, Pow2(u)))
      [] OTHER ->
            IF u < 0 THEN checked_failure("negative_shift")
            ELSE IF u >= R.bits THEN checked_failure("shift_too_large")
            ELSE IF t < 0 THEN checked_failure("negative_value_shift")
            ELSE checked_result(t \div Pow2(u))

\* c1 op c2 on checked results: a failure of an operand is the result
checked_result_operation(op, R, c1, c2) ==
    IF exception(c1) THEN c1
    ELSE IF exception(c2) THEN c2
    ELSE checked_operation(op, R, c1.r, c2.r)

---------------------------------------------------------------------------
(* boost::logic::tribool, and the comparisons of checked results            *)

tribool(b) == IF b THEN "true" ELSE "false"
indeterminate == "indeterminate"
tri_bool(t) == t = "true"
tri_not(t) ==
    CASE t = "true" -> "false" [] t = "false" -> "true" [] OTHER -> indeterminate
tri_and(x, y) ==
    IF x = "false" \/ y = "false" THEN "false"
    ELSE IF x = "true" /\ y = "true" THEN "true" ELSE indeterminate
tri_or(x, y) ==
    IF x = "true" \/ y = "true" THEN "true"
    ELSE IF x = "false" /\ y = "false" THEN "false" ELSE indeterminate

\* c1 < c2 and its kin: a bound that holds a failure cannot be ordered
cr_lt(c1, c2) ==
    IF exception(c1) \/ exception(c2) THEN indeterminate ELSE tribool(c1.r < c2.r)
cr_gt(c1, c2) == cr_lt(c2, c1)
cr_le(c1, c2) ==
    IF exception(c1) \/ exception(c2) THEN indeterminate ELSE tribool(c1.r <= c2.r)
cr_ge(c1, c2) == cr_le(c2, c1)

---------------------------------------------------------------------------
(* interval<R>                                                              *)

interval(l, u) == [l |-> l, u |-> u]

\* interval<R> over plain numbers, as an interval of successes
plain_interval(lo, hi) == interval(checked_result(lo), checked_result(hi))

includes_point(i, t) == tri_and(cr_le(i.l, t), cr_le(t, i.u))
includes(i, t) == tri_and(cr_ge(i.u, t.u), cr_le(i.l, t.l))
excludes_point(i, t) == tri_or(cr_lt(t, i.l), cr_gt(t, i.u))
\* a variant that takes whatever is not included as excluded
excludes_not_included(i, t) == tri_not(includes(i, t))
excludes(i, t) == tri_or(cr_lt(t.u, i.l), cr_lt(i.u, t.l))

\* utility::minmax over the corner results: the least and the greatest; a
\* corner that failed leaves both bounds unknown, carrying its failure
RECURSIVE FirstFailure(_)
FirstFailure(cs) ==
    IF cs = << >> THEN checked_result(0)
    ELSE IF exception(Head(cs)) THEN Head(cs) ELSE FirstFailure(Tail(cs))

RECURSIVE LeastOf(_)
LeastOf(cs) ==
    IF Len(cs) = 1 THEN cs[1].r ELSE Min2(cs[1].r, LeastOf(Tail(cs)))

RECURSIVE GreatestOf(_)
GreatestOf(cs) ==
    IF Len(cs) = 1 THEN cs[1].r ELSE Max2(cs[1].r, GreatestOf(Tail(cs)))

minmax(cs) ==
    LET f == FirstFailure(cs)
    IN IF exception(f) THEN interval(f, f)
       ELSE interval(checked_result(LeastOf(cs)), checked_result(GreatestOf(cs)))

\* a variant that pairs lower bound with lower bound and upper with upper
\* for every operator
interval_operation_aligned(op, R, t, u) ==
    interval(checked_result_operation(op, R, t.l, u.l),
             checked_result_operation(op, R, t.u, u.u))

\* operator+, -, *, /, %, <<, >> on intervals of checked_result<R>
interval_operation(op, R, t, u) ==
    CASE op = "add" ->
            interval(checked_result_operation(op, R, t.l, u.l),
                     checked_result_operation(op, R, t.u, u.u))
      [] op = "sub" ->
            interval(checked_result_operation(op, R, t.l, u.u),
                     checked_result_operation(op, R, t.u, u.l))
      [] OTHER ->
            minmax(<<checked_result_operation(op, R, t.l, u.l),
                     checked_result_operation(op, R, t.l, u.u),
                     checked_result_operation(op, R, t.u, u.l),
                     checked_result_operation(op, R, t.u, u.u)>>)

\* intersect(t, u)
intersect(t, u) == tri_or(cr_ge(t.u, u.l), cr_le(t.l, u.u))

\* a variant with two answers: whatever is not surely less is not less
interval_lt_two_valued(t, u) == tribool(tri_bool(cr_lt(t.u, u.l)))

\* t < u, t > u, t <= u, t >= u on intervals
interval_lt(t, u) ==
    IF tri_bool(cr_lt(t.u, u.l)) THEN "true"
    ELSE IF tri_bool(cr_gt(t.l, u.u)) THEN "false" ELSE indeterminate
interval_gt(t, u) ==
    IF tri_bool(cr_gt(t.l, u.u)) THEN "true"
    ELSE IF tri_bool(cr_lt(t.u, u.l)) THEN "false" ELSE indeterminate
interval_le(t, u) == tri_not(interval_gt(t, u))
interval_ge(t, u) == tri_not(interval_lt(t, u))

---------------------------------------------------------------------------
(* Ranged types: safe_base<Stored, Min, Max, P, E> and plain numeric types  *)

\* safe_base<Stored, Min, Max, native, E>
safe_base(Stored, Min, Max) ==
    [st |-> Stored, min |-> Min, max |-> Max, safe |-> TRUE]

\* safe<T>: the range is the type's full native span
safe(T) == safe_base(T, TMin(T), TMax(T))

\* a built-in type as an operand: base_type<T> is T itself, is_safe is false
builtin(T) == [st |-> T, min |-> TMin(T), max |-> TMax(T), safe |-> FALSE]

\* the static range of operand type T cast into R:
\* {checked::cast<R>(base_value(numeric_limits<T>::min())), ...max())}
operand_interval(R, T) == interval(checked_cast(R, T.min), checked_cast(R, T.max))

interval_open(i) == exception(i.l) \/ exception(i.u)

\* What the build can leave in a value that the language does not define
\* (the m_r of a checked_result that holds a failure, a native operation
\* outside its domain): any value of the type; three of them stand for all.
Unspecified(R) == {TMin(R), 0, TMax(R)}

---------------------------------------------------------------------------
(* validate_detail<R, Min, Max, E>::return_value(t)                         *)

\* The outcome of a conversion or operator: rejected at build time, or the
\* path taken, the possible stored values, and the trail of reports.
Outcome(rejected, checked, vs, ub, trail) ==
    [rejected |-> rejected, checked |-> checked, vs |-> vs, ub |-> ub,
     log |-> trail.log, thrown |-> trail.thrown]

\* a variant that passes the bounds in the wrong order
validate_exception_possible_swapped(R, Min, Max, EP, t) ==
    LET rx == checked_cast_range(Max, Min, t)
        trail == IF exception(rx) THEN dispatch(EP, rx.e, NoTrail) ELSE NoTrail
    IN Outcome(FALSE, TRUE, IF exception(rx) THEN Unspecified(R) ELSE {rx.r},
               exception(rx) /\ ~trail.thrown, trail)

\* exception_possible::return_value: the checked cast into [Min, Max]; a
\* failure is dispatched, and if the handler returns the failed result is
\* read as a value
validate_exception_possible(R, Min, Max, EP, t) ==
    LET rx == checked_cast_range(Min, Max, t)
        trail == IF exception(rx) THEN dispatch(EP, rx.e, NoTrail) ELSE NoTrail
    IN Outcome(FALSE, TRUE, IF exception(rx) THEN Unspecified(R) ELSE {rx.r},
               exception(rx) /\ ~trail.thrown, trail)

\* exception_not_possible::return_value: static_cast<R>(base_value(t))
validate_exception_not_possible(R, t) ==
    Outcome(FALSE, FALSE, {Wrap(R, t)}, FALSE, NoTrail)

\* an instantiation that reaches a handler whose action is trap does not build
Trapped(EP, cats) == \E a \in cats : Handler(EP, a) = "trap"

\* a variant that converts without the range check
validate_return_value_unchecked(R, Min, Max, EP, T, t) ==
    validate_exception_not_possible(R, t)

validate_return_value(R, Min, Max, EP, T, t) ==
    LET t_interval == operand_interval(R, T)
        r_interval == plain_interval(Min, Max)
    IN IF tri_bool(excludes(r_interval, t_interval))
       THEN Outcome(TRUE, FALSE, {}, FALSE, NoTrail)
       ELSE IF tri_bool(includes(r_interval, t_interval))
       THEN validate_exception_not_possible(R, t)
       ELSE IF Trapped(EP, {"arithmetic_error"})
       THEN Outcome(TRUE, TRUE, {}, FALSE, NoTrail)
       ELSE validate_exception_possible(R, Min, Max, EP, t)

\* safe_base<Stored, Min, Max, P, E>::validated_cast(t) for a target type S
validated_cast(S, EP, T, t) == validate_return_value(S.st, S.min, S.max, EP, T, t)

\* a variant of the default constructor that reports nothing
default_constructor_silent(EP, S) ==
    Outcome(FALSE, FALSE, Unspecified(S.st), TRUE, NoTrail)

\* safe_base<Stored, Min, Max, P, E>::safe_base(): dispatch of
\* uninitialized_value, m_t left without a value
default_constructor(EP, S) ==
    LET trail == dispatch(EP, "uninitialized_value", NoTrail)
    IN IF Trapped(EP, {make_safe_numerics_action("uninitialized_value")})
       THEN Outcome(TRUE, FALSE, {}, FALSE, NoTrail)
       ELSE Outcome(FALSE, FALSE, Unspecified(S.st), ~trail.thrown, trail)

\* safe_base<T, Min, Max, P, E>::input(is) on a ranged value of type S
\* holding m_t; the text is [parses, n]: no numeral, or the numeral n (of
\* the range of int). The outcomes [rejected, v, log, thrown, ub], v what
\* m_t holds afterwards. Both branches are instantiated for every S.
\*   char storage: int x; is >> x; m_t = validated_cast(x), without a test
\*     of the stream (a failed extraction leaves 0 in x)
\*   other storage: a numeral with '-' read into an unsigned type sets the
\*     failbit first; is >> m_t writes m_t (0 when nothing parses); a
\*     failed stream dispatches domain_error, else validated_cast(m_t) is
\*     evaluated and its result dropped
safe_base_input(EP, S, m_t, text) ==
    LET x == IF text.parses THEN text.n ELSE 0
        narrow == validated_cast(S, EP, builtin(IntT), x)
        own == validated_cast(S, EP, builtin(S.st), x)
        failed == dispatch(EP, "domain_error", NoTrail)
        result(v, log, thrown, ub) ==
            [rejected |-> FALSE, v |-> v, log |-> log, thrown |-> thrown,
             ub |-> ub]
    IN IF Trapped(EP, {"arithmetic_error"}) \/ narrow.rejected \/ own.rejected
       THEN {[rejected |-> TRUE, v |-> m_t, log |-> << >>, thrown |-> FALSE,
              ub |-> FALSE]}
       ELSE IF S.st.bits = CharBits
       THEN {result(IF narrow.thrown THEN m_t ELSE v, narrow.log,
                    narrow.thrown, narrow.ub) : v \in narrow.vs}
       ELSE IF ~S.st.sg /\ text.parses /\ text.n < 0
       THEN {result(m_t, failed.log, failed.thrown, FALSE)}
       ELSE IF ~text.parses
       THEN {result(0, failed.log, failed.thrown, FALSE)}
       ELSE {result(x, own.log, own.thrown, FALSE)}

---------------------------------------------------------------------------
(* the policies of a binary operation. An operand type carries [safe, P,   *)
(* E]: get_promotion_policy and get_exception_policy give P and E of a     *)
(* ranged type and void of any other type.                                 *)

\* common_exception_policy that lets the right operand's policy win
common_exception_policy_right(T, U) ==
    LET u_exception_policy == IF U.safe THEN U.E ELSE "void"
        t_exception_policy == IF T.safe THEN T.E ELSE "void"
    IN [rejected |-> ~(T.safe \/ U.safe)
                     \/ (t_exception_policy = "void"
                         /\ u_exception_policy = "void"),
        type |-> IF u_exception_policy # "void" THEN u_exception_policy
                 ELSE t_exception_policy]

\* common_exception_policy<T, U>: [rejected, type]; rejected when one of the
\* static assertions fails
common_exception_policy(T, U) ==
    LET t_exception_policy == IF T.safe THEN T.E ELSE "void"
        u_exception_policy == IF U.safe THEN U.E ELSE "void"
        type == IF u_exception_policy # "void" THEN u_exception_policy
                ELSE IF t_exception_policy # "void" THEN t_exception_policy
                ELSE "void"
    IN [rejected |->
            \/ ~(T.safe \/ U.safe)
            \/ ~(\/ t_exception_policy = u_exception_policy
                 \/ t_exception_policy = "void"
                 \/ u_exception_policy = "void")
            \/ (t_exception_policy = "void" /\ u_exception_policy = "void")
            \/ type = "void",
        type |-> type]

\* common_promotion_policy<T, U>: [rejected, type]
common_promotion_policy(T, U) ==
    LET t_promotion_policy == IF T.safe THEN T.P ELSE "void"
        u_promotion_policy == IF U.safe THEN U.P ELSE "void"
        type == IF u_promotion_policy # "void" THEN u_promotion_policy
                ELSE IF t_promotion_policy # "void" THEN t_promotion_policy
                ELSE "void"
    IN [rejected |->
            \/ ~(T.safe \/ U.safe)
            \/ ~(\/ t_promotion_policy = u_promotion_policy
                 \/ t_promotion_policy = "void"
                 \/ u_promotion_policy = "void")
            \/ (t_promotion_policy = "void" /\ u_promotion_policy = "void")
            \/ type = "void",
        type |-> type]

---------------------------------------------------------------------------
(* casting_helper<EP, R>(t, u)                                              *)

\* safe_base<Stored, Min, Max, P, E>::operator R() of a ranged value of
\* type T holding t: the static assertion compares R's full range with
\* [Min, Max] converted to R (interval<R> built from interval<Stored>, each
\* bound converted as the language converts it); then the stored value, a
\* Stored, is validated against R's full range
operator_R(EP, T, R, t) ==
    LET r_interval == plain_interval(TMin(R), TMax(R))
        this_interval == plain_interval(Wrap(R, T.min), Wrap(R, T.max))
    IN IF tri_bool(excludes(r_interval, this_interval))
       THEN Outcome(TRUE, FALSE, {}, FALSE, NoTrail)
       ELSE validate_return_value(R, TMin(R), TMax(R), EP, builtin(T.st), t)

\* static_cast<R>(t) of an operand of type T: of a ranged value it is
\* safe_base::operator R(); of a built-in value it is the language's
\* conversion
operand_static_cast(EP, R, T, t) ==
    IF T.safe
    THEN operator_R(EP, T, R, t)
    ELSE validate_exception_not_possible(R, t)

\* one operand: the checked cast into R's full range, dispatching a
\* failure; after a failure whose handler returned, static_cast<R>(t).
\* The set of [r, ub, trail] the build can produce; nothing runs once a
\* handler has thrown.
cast_operand(EP, R, T, t, trail) ==
    LET tx == checked_cast(R, t)
        reported == dispatch(EP, tx.e, trail)
        again == operand_static_cast(EP, R, T, t)
    IN IF trail.thrown THEN {[r |-> 0, ub |-> FALSE, trail |-> trail]}
       ELSE IF ~exception(tx) THEN {[r |-> tx.r, ub |-> FALSE, trail |-> trail]}
       ELSE IF reported.thrown THEN {[r |-> 0, ub |-> FALSE, trail |-> reported]}
       ELSE {[r |-> v, ub |-> again.ub,
              trail |-> [log |-> reported.log \o again.log,
                         thrown |-> again.thrown]] : v \in again.vs}

\* the pairs [first, second, ub, trail] casting_helper can return
casting_helper(EP, R, T, t, U, u) ==
    UNION {{[first |-> ct.r, second |-> cu.r, ub |-> ct.ub \/ cu.ub,
             trail |-> cu.trail] : cu \in cast_operand(EP, R, U, u, ct.trail)}
           : ct \in cast_operand(EP, R, T, t, NoTrail)}

---------------------------------------------------------------------------
(* Native operations in the type R (both operands already of type R)        *)

\* the outcomes of a signed operation whose exact result R cannot hold
Overflowed(R, w) == {w, TMin(R), TMax(R)}

\* x op y as the machine computes it: [vs, ub], vs the values the build can
\* produce and ub whether the language leaves the operation undefined
native_operation(op, R, x, y) ==
    LET fits(e) == TMin(R) <= e /\ e <= TMax(R)
        arith(e, w) ==
            IF R.sg /\ ~fits(e) THEN [vs |-> Overflowed(R, w), ub |-> TRUE]
            ELSE [vs |-> {w}, ub |-> FALSE]
        undefined == [vs |-> Unspecified(R), ub |-> TRUE]
    IN CASE op = "add" -> arith(x + y, Wrap(R, x + y))
         [] op = "sub" -> arith(x - y, Wrap(R, x - y))
         [] op = "mul" -> arith(ExactMul(x, y), MulWrap(R, x, y))
         [] op = "div" ->
               IF y = 0 THEN undefined
               ELSE arith(TruncDiv(x, y), Wrap(R, TruncDiv(x, y)))
         [] op = "mod" ->
               IF y = 0 \/ ~fits(TruncDiv(x, y)) THEN undefined
               ELSE arith(TruncMod(x, y), TruncMod(x, y))
         [] op = "shl" ->
               IF y < 0 \/ y >= R.bits \/ x < 0 THEN undefined
               ELSE arith(ExactMul(x, Pow2(y)), MulWrap(R, x, Pow2(y)))
         [] op = "shr" ->
               IF y < 0 \/ y >= R.bits THEN undefined
               ELSE [vs |-> {x \div Pow2(y)}, ub |-> FALSE]
         [] op = "or" ->
               [vs |-> {Wrap(R, BitCombine("or", x % Pow2(R.bits),
                                           y % Pow2(R.bits), R.bits))},
                ub |-> FALSE]
         [] op = "and" ->
               [vs |-> {Wrap(R, BitCombine("and", x % Pow2(R.bits),
                                           y % Pow2(R.bits), R.bits))},
                ub |-> FALSE]
         [] OTHER ->
               [vs |-> {Wrap(R, BitCombine("xor", x % Pow2(R.bits),
                                           y % Pow2(R.bits), R.bits))},
                ub |-> FALSE]

---------------------------------------------------------------------------
(* The arithmetic and shift operators: *_result<T, U>                       *)

ArithmeticOps == {"add", "sub", "mul", "div", "mod", "shl", "shr"}
BitwiseOps == {"or", "and", "xor"}

\* a variant that takes the promoted type of the left operand alone
result_base_type_left(op, T, U) == Promote(T.st)

\* promotion_policy::*_result<T, U>::type
result_base_type(op, T, U) == native_result(op, T.st, U.st)

\* a variant that returns the left operand's range as the result's
get_r_type_interval_left(op, T, U) ==
    operand_interval(result_base_type(op, T, U), T)

\* get_r_type_interval(): the interval operator applied to the operands'
\* static ranges; for / and % with a divisor that may be zero, the corners
\* with the divisors -1 and 1 added
get_r_type_interval(op, T, U) ==
    LET R == result_base_type(op, T, U)
        t == operand_interval(R, T)
        u == operand_interval(R, U)
        zero == checked_result(0)
        m1 == checked_result(Wrap(R, 0 - 1))
        p1 == checked_result(1)
        q(x, y) == checked_result_operation(op, R, x, y)
    IN IF op \in {"div", "mod"}
          /\ ~tri_bool(tri_or(cr_lt(u.u, zero), cr_gt(u.l, zero)))
       THEN minmax(<<q(t.l, u.l), q(t.l, m1), q(t.l, p1), q(t.l, u.u),
                     q(t.u, u.l), q(t.u, m1), q(t.u, p1), q(t.u, u.u)>>)
       ELSE interval_operation(op, R, t, u)

\* return_interval: a bound that failed becomes the storage type's limit
return_interval(op, T, U) ==
    LET R == result_base_type(op, T, U)
        ri == get_r_type_interval(op, T, U)
    IN [l |-> IF exception(ri.l) THEN TMin(R) ELSE ri.l.r,
        u |-> IF exception(ri.u) THEN TMax(R) ELSE ri.u.r]

\* a variant that tests the divisor for zero and nothing else
exception_possible_zero_only(op, T, U) ==
    /\ op \in {"div", "mod"}
    /\ tri_bool(includes_point(operand_interval(result_base_type(op, T, U), U),
                               checked_result(0)))

\* a variant that always asks for the checked path
exception_possible_always(op, T, U) == TRUE

\* a variant whose right shift compares the bounds of the operands and
\* does not look at the failures in the interval of the results
exception_possible_bounds_only(op, T, U) ==
    LET R == result_base_type(op, T, U)
        ti == operand_interval(R, T)
        ui == operand_interval(R, U)
        zero == checked_result(0)
    IN op = "shr" =>
         tri_bool(tri_or(cr_gt(ui.u, checked_result(Digits(R))),
                         tri_or(cr_lt(ti.l, zero), cr_lt(ui.l, zero))))

\* exception_possible()
exception_possible(op, T, U) ==
    LET R == result_base_type(op, T, U)
        ri == get_r_type_interval(op, T, U)
        ti == operand_interval(R, T)
        ui == operand_interval(R, U)
        rv == return_interval(op, T, U)
        zero == checked_result(0)
    IN CASE op \in {"div", "mod"} ->
              tri_bool(includes_point(ui, zero)) \/ exception(ri.l) \/ exception(ri.u)
         [] op = "shr" ->
              tri_bool(tri_or(tri_or(cr_gt(ui.u, checked_result(Digits(R))),
                                     cr_lt(ti.l, zero)),
                              tri_or(cr_lt(ui.l, zero),
                                     tribool(exception(ri.l) \/ exception(ri.u)))))
         [] OTHER ->
              \/ exception(ri.l)
              \/ exception(ri.u)
              \/ tri_bool(tri_not(includes(plain_interval(rv.l, rv.u), ri)))

\* boost::int_t<bits>::least / uint_t<bits>::least: the temporary type of
\* the checked division and modulus
temp_base(R, T, U) ==
    LET bits == Min2(UIntMaxDigits,
                     Max2(Digits(R), Max2(Digits(T.st), Digits(U.st)))
                     + (IF R.sg THEN 1 ELSE 0))
    IN [sg |-> R.sg,
        bits |-> IF bits <= CharBits THEN CharBits
                 ELSE IF bits <= IntBits THEN IntBits ELSE UIntMaxDigits]

\* the value returned on the checked path when the checked primitive failed
\* and the handler returned
failed_operation_value(op, R, first, second) ==
    CASE op \in {"div", "mod"} -> [vs |-> Unspecified(R), ub |-> TRUE]
      [] op = "sub" -> native_operation("add", R, first, second)
      [] OTHER -> native_operation(op, R, first, second)

\* what follows casting_helper on the checked path, for one pair r it
\* returned: the checked primitive in the type C with its failure
\* dispatched, and the value returned as an R. After a throw no value is
\* produced (vs holds a placeholder).
checked_operation_outcome(op, EP, R, C, r) ==
    LET rx == checked_operation(op, C, r.first, r.second)
        trail == IF exception(rx) THEN dispatch(EP, rx.e, r.trail) ELSE r.trail
        bad == failed_operation_value(op, C, r.first, r.second)
    IN IF trail.thrown THEN Outcome(FALSE, TRUE, {0}, FALSE, trail)
       ELSE IF exception(rx)
       THEN Outcome(FALSE, TRUE, {Wrap(R, v) : v \in bad.vs}, bad.ub \/ r.ub, trail)
       ELSE Outcome(FALSE, TRUE, {Wrap(R, rx.r)}, r.ub, trail)

\* return_value(t, u, std::true_type): the outcomes of the checked path
return_value_exception_possible(op, EP, T, t, U, u) ==
    LET R == result_base_type(op, T, U)
        C == IF op \in {"div", "mod"} THEN temp_base(R, T, U) ELSE R
    IN {checked_operation_outcome(op, EP, R, C, r) :
            r \in casting_helper(EP, C, T, t, U, u)}

\* return_value(t, u, std::false_type): the plain native operation
return_value_exception_not_possible(op, T, t, U, u) ==
    LET R == result_base_type(op, T, U)
        n == native_operation(op, R, Wrap(R, t), Wrap(R, u))
    IN {Outcome(FALSE, FALSE, n.vs, n.ub, NoTrail)}

\* the categories whose handlers the checked path of op instantiates
checked_categories(op) ==
    IF op \in {"shl", "shr"}
    THEN {"arithmetic_error", "implementation_defined_behavior"}
    ELSE {"arithmetic_error"}

\* *_result<T, U>::type
arithmetic_result_type(op, T, U) ==
    LET rv == return_interval(op, T, U)
    IN safe_base(result_base_type(op, T, U), rv.l, rv.u)

\* a variant that always takes the fast path
arithmetic_return_value_unchecked(op, EP, T, t, U, u) ==
    return_value_exception_not_possible(op, T, t, U, u)

\* *_result<T, U>::return_value(t, u): the set of its possible outcomes
arithmetic_return_value(op, EP, T, t, U, u) ==
    IF ~exception_possible(op, T, U)
    THEN return_value_exception_not_possible(op, T, t, U, u)
    ELSE IF Trapped(EP, checked_categories(op))
    THEN {Outcome(TRUE, TRUE, {}, FALSE, NoTrail)}
    ELSE return_value_exception_possible(op, EP, T, t, U, u)

---------------------------------------------------------------------------
(* The bitwise operators: bitwise_or_result, bitwise_and_result,            *)
(* bitwise_xor_result                                                       *)

\* utility::round_out(x): the least 2^k - 1 that is >= x
RECURSIVE RoundOutFrom(_, _)
RoundOutFrom(x, k) == IF Pow2(k) - 1 >= x THEN Pow2(k) - 1 ELSE RoundOutFrom(x, k + 1)
round_out(x) == RoundOutFrom(x, 0)

make_unsigned(R) == [sg |-> FALSE, bits |-> R.bits]

\* bitwise_*_result<T, U>::type: [0, round_out(max or min of the maxima)]
bitwise_result_type(op, T, U) ==
    LET R == result_base_type(op, T, U)
        r_type == make_unsigned(R)
        tmax == Wrap(r_type, T.max)
        umax == Wrap(r_type, U.max)
    IN safe_base(R, Wrap(R, 0),
                 Wrap(R, round_out(IF op = "and" THEN Min2(tmax, umax)
                                   ELSE Max2(tmax, umax))))

\* bitwise_*_result<T, U>::return_value(t, u): the native operation, stored
\* without validation
bitwise_return_value(op, T, t, U, u) ==
    LET R == result_base_type(op, T, U)
        n == native_operation(op, R, Wrap(R, t), Wrap(R, u))
    IN {Outcome(FALSE, FALSE, n.vs, n.ub, NoTrail)}

\* the result type and the evaluation of any binary operator
result_type(op, T, U) ==
    IF op \in BitwiseOps THEN bitwise_result_type(op, T, U)
    ELSE arithmetic_result_type(op, T, U)

binary_return_value(op, EP, T, t, U, u) ==
    IF op \in BitwiseOps THEN bitwise_return_value(op, T, t, U, u)
    ELSE arithmetic_return_value(op, EP, T, t, U, u)

---------------------------------------------------------------------------
(* safe_compare: comparisons of primitive integers                          *)

\* t < u and t == u as the language compares two built-in integers: both
\* are converted to the common type first
native_less(T, t, U, u) ==
    LET C == UsualArithmetic(T, U) IN Wrap(C, t) < Wrap(C, u)
native_equal(T, t, U, u) ==
    LET C == UsualArithmetic(T, U) IN Wrap(C, t) = Wrap(C, u)

\* a variant that compares as the language does, after the usual conversions
less_than_naive(T, t, U, u) == native_less(T, t, U, u)

\* safe_compare_detail::less_than<TS, US>::invoke(t, u)
less_than_invoke(T, t, U, u) ==
    IF T.sg = U.sg THEN native_less(T, t, U, u)
    ELSE IF ~T.sg
    THEN (IF u < 0 THEN FALSE
          ELSE native_less(T, t, make_unsigned(U), Wrap(make_unsigned(U), u)))
    ELSE (IF t < 0 THEN TRUE
          ELSE native_less(make_unsigned(T), Wrap(make_unsigned(T), t), U, u))

\* safe_compare_detail::equal<TS, US>::invoke(t, u)
equal_invoke(T, t, U, u) ==
    IF T.sg = U.sg THEN native_equal(T, t, U, u)
    ELSE IF ~T.sg
    THEN (IF u < 0 THEN FALSE
          ELSE native_equal(T, t, make_unsigned(U), Wrap(make_unsigned(U), u)))
    ELSE (IF t < 0 THEN FALSE
          ELSE native_equal(make_unsigned(T), Wrap(make_unsigned(T), t), U, u))

less_than(T, t, U, u) == less_than_invoke(T, t, U, u)
greater_than(T, t, U, u) == less_than(U, u, T, t)
less_than_equal(T, t, U, u) == ~greater_than(T, t, U, u)
greater_than_equal(T, t, U, u) == ~less_than(T, t, U, u)
equal(T, t, U, u) == equal_invoke(T, t, U, u)
not_equal(T, t, U, u) == ~equal(T, t, U, u)

---------------------------------------------------------------------------
(* The comparison operators of ranged values                                *)

\* The outcome of a comparison: rejected at build time, or the path taken
\* (static: decided from the ranges alone), the answer and the trail.
Compared(rejected, path, b, trail) ==
    [rejected |-> rejected, path |-> path, b |-> b,
     log |-> trail.log, thrown |-> trail.thrown]

\* less_than_result<T, U>::return_value(t, u)
less_than_return_value(EP, T, t, U, u) ==
    LET R == result_base_type("lt", T, U)
        t_interval == operand_interval(R, T)
        u_interval == operand_interval(R, U)
    IN IF tri_bool(interval_lt(t_interval, u_interval))
       THEN {Compared(FALSE, "static", TRUE, NoTrail)}
       ELSE IF tri_bool(interval_gt(t_interval, u_interval))
       THEN {Compared(FALSE, "static", FALSE, NoTrail)}
       ELSE IF ~(interval_open(t_interval) \/ interval_open(u_interval))
       THEN {Compared(FALSE, "fast", Wrap(R, t) < Wrap(R, u), NoTrail)}
       ELSE IF Trapped(EP, {"arithmetic_error"})
       THEN {Compared(TRUE, "checked", FALSE, NoTrail)}
       ELSE {Compared(FALSE, "checked",
                      ~r.trail.thrown /\ less_than(R, r.first, R, r.second),
                      r.trail) : r \in casting_helper(EP, R, T, t, U, u)}

\* equal_result<T, U>::return_value(t, u)
equal_return_value(EP, T, t, U, u) ==
    LET R == result_base_type("eq", T, U)
        t_interval == operand_interval(R, T)
        u_interval == operand_interval(R, U)
    IN IF tri_bool(tri_not(intersect(t_interval, u_interval)))
       THEN {Compared(FALSE, "static", FALSE, NoTrail)}
       ELSE IF ~(interval_open(t_interval) \/ interval_open(u_interval))
       THEN {Compared(FALSE, "fast", Wrap(R, t) = Wrap(R, u), NoTrail)}
       ELSE IF Trapped(EP, {"arithmetic_error"})
       THEN {Compared(TRUE, "checked", FALSE, NoTrail)}
       ELSE {Compared(FALSE, "checked",
                      ~r.trail.thrown /\ equal(R, r.first, R, r.second),
                      r.trail) : r \in casting_helper(EP, R, T, t, U, u)}

\* operator<, >, >=, <=, ==, != on ranged values
Negated(cs) == {[c EXCEPT !.b = ~c.b] : c \in cs}
compare_return_value(op, EP, T, t, U, u) ==
    CASE op = "lt" -> less_than_return_value(EP, T, t, U, u)
      [] op = "gt" -> less_than_return_value(EP, U, u, T, t)
      [] op = "ge" -> Negated(less_than_return_value(EP, T, t, U, u))
      [] op = "le" -> Negated(less_than_return_value(EP, U, u, T, t))
      [] op = "eq" -> equal_return_value(EP, T, t, U, u)
      [] OTHER -> Negated(equal_return_value(EP, T, t, U, u))

---------------------------------------------------------------------------
(* The program: two operands, the result of the last operator applied to    *)
(* them, and the ranged value the result was last stored into               *)

VARIABLES
    ep,      \* the exception policy of every ranged type of the program
    a, b,    \* the operands: [ty, v], a ranged or a built-in value
    last,    \* the last operation on a and b and what it produced
    stored   \* the last conversion of that result into a ranged type

vars == <<ep, a, b, last, stored>>

\* the bound of the model: the greatest magnitude in the narrow ranges
MaxRange == 10

Policies == {default_exception_policy, ignore_all_policy, loose_trap_policy}

\* the ranged types values are constructed in
OperandTypes ==
    {safe(Int8T), safe(UInt8T), safe(IntT), safe(UIntT),
     safe_base(Int8T, 0, MaxRange), safe_base(Int8T, 1, MaxRange),
     safe_base(Int8T, 0 - MaxRange, 0 - 1)}

\* the built-in values a ranged value is constructed from
SourceValues ==
    {TMin(IntT), 0 - 128, 0 - 1, 0, 3, 10, 127, 255, TMax(IntT)}
UnsignedSourceValues == {TMax(UIntT)}

NoType == safe(IntT)
Nothing ==
    [op |-> "none", kind |-> "none", path |-> "none", ty |-> NoType, v |-> 0,
     b |-> FALSE, log |-> << >>, thrown |-> FALSE, ub |-> FALSE]
NotStored ==
    [kind |-> "none", path |-> "none", ty |-> NoType, v |-> 0,
     log |-> << >>, thrown |-> FALSE, ub |-> FALSE]

Path(checked) == IF checked THEN "checked" ELSE "fast"

Init ==
    /\ ep \in Policies
    /\ a = [ty |-> safe(Int8T), v |-> 0]
    /\ b = [ty |-> safe(Int8T), v |-> 0]
    /\ last = Nothing
    /\ stored = NotStored

\* what an operation leaves in last (or stored): a value of type ty when no
\* handler threw, else nothing but the trail
Produced(op, ty, out, v) ==
    [op |-> op, kind |-> IF out.thrown THEN "none" ELSE "value",
     path |-> Path(out.checked), ty |-> ty, v |-> IF out.thrown THEN 0 ELSE v,
     b |-> FALSE, log |-> out.log, thrown |-> out.thrown, ub |-> out.ub]

\* safe_literal_impl<T, N, P, E>: a ranged constant, of range [N, N]
safe_literal(T, N) == safe_base(T, N, N)

\* safe_base(const T & t) and safe_base(const safe_literal_impl<T, N> & t):
\* a ranged value of type S from a value t of type T
Construct(S, T, t, left) ==
    /\ last.op = "none"
    /\ \E out \in {validated_cast(S, ep, T, t)} :
         /\ ~out.rejected
         /\ \E v \in out.vs :
              /\ last' = [Produced("construct", S, out, v)
                             EXCEPT !.kind = "none", !.v = 0]
              /\ IF out.thrown THEN UNCHANGED <<a, b>>
                 ELSE IF left THEN a' = [ty |-> S, v |-> v] /\ b' = b
                 ELSE b' = [ty |-> S, v |-> v] /\ a' = a
    /\ stored' = NotStored
    /\ UNCHANGED ep

ConstructLeft ==
    \E S \in OperandTypes :
        \/ \E t \in SourceValues : Construct(S, builtin(IntT), t, TRUE)
        \/ \E t \in SourceValues : Construct(S, safe_literal(IntT, t), t, TRUE)
        \/ \E t \in UnsignedSourceValues : Construct(S, builtin(UIntT), t, TRUE)

ConstructRight ==
    \E S \in OperandTypes :
        \/ \E t \in SourceValues : Construct(S, builtin(IntT), t, FALSE)
        \/ \E t \in SourceValues : Construct(S, safe_literal(IntT, t), t, FALSE)
        \/ \E t \in UnsignedSourceValues : Construct(S, builtin(UIntT), t, FALSE)

\* the right operand of an operator may be a plain int
BuiltinRight ==
    /\ last.op = "none"
    /\ \E t \in {0 - 1, 0, 2} : b' = [ty |-> builtin(IntT), v |-> t]
    /\ last' = Nothing
    /\ stored' = NotStored
    /\ UNCHANGED <<ep, a>>

\* legal_overload: at least one operand is a ranged value
legal_overload(T, U) == T.safe \/ U.safe

\* operator+, -, *, /, %, <<, >>, |, &, ^ on a and b
Binary(op) ==
    /\ last.op = "none"
    /\ legal_overload(a.ty, b.ty)
    /\ \E out \in binary_return_value(op, ep, a.ty, a.v, b.ty, b.v) :
         /\ ~out.rejected
         /\ \E ty \in {result_type(op, a.ty, b.ty)} :
              \E v \in out.vs : last' = Produced(op, ty, out, v)
    /\ stored' = NotStored
    /\ UNCHANGED <<ep, a, b>>


\* operator<, >, <=, >=, ==, != on a and b
Compare(op) ==
    /\ last.op = "none"
    /\ legal_overload(a.ty, b.ty)
    /\ \E out \in compare_return_value(op, ep, a.ty, a.v, b.ty, b.v) :
         /\ ~out.rejected
         /\ last' = [op |-> op, kind |-> IF out.thrown THEN "none" ELSE "bool",
                     path |-> out.path, ty |-> NoType, v |-> 0,
                     b |-> IF out.thrown THEN FALSE ELSE out.b,
                     log |-> out.log, thrown |-> out.thrown, ub |-> FALSE]
    /\ stored' = NotStored
    /\ UNCHANGED <<ep, a, b>>


\* safe_base(const T & t) with t the ranged value a: a conversion of a into
\* another ranged type
ConvertTypes ==
    {safe(Int8T), safe(IntT), safe(UIntT), safe_base(Int8T, 0, MaxRange),
     safe_base(IntT, 0 - 200, 300)}

Convert ==
    /\ last.op = "none"
    /\ a.ty.safe
    /\ \E S \in ConvertTypes :
         \E out \in {validated_cast(S, ep, a.ty, a.v)} :
            /\ ~out.rejected
            /\ \E v \in out.vs : last' = Produced("convert", S, out, v)
    /\ stored' = NotStored
    /\ UNCHANGED <<ep, a, b>>

\* static_cast<R>(a) for a plain numeric type R: operator R() of the ranged
\* value a
BuiltinTypes == {Int8T, UInt8T, IntT, UIntT}

ConvertToBuiltin ==
    /\ last.op = "none"
    /\ a.ty.safe
    /\ \E R \in BuiltinTypes :
         \E out \in {operator_R(ep, a.ty, R, a.v)} :
            /\ ~out.rejected
            /\ \E v \in out.vs : last' = Produced("cast", builtin(R), out, v)
    /\ stored' = NotStored
    /\ UNCHANGED <<ep, a, b>>

\* z = x op y with z of x's type: the result of the last operator is stored
\* into a ranged value of the left operand's type
Assign ==
    /\ last.kind = "value"
    /\ stored.kind = "none" /\ ~stored.thrown
    /\ a.ty.safe
    /\ \E S \in {a.ty} :
         \E out \in {validated_cast(S, ep, last.ty, last.v)} :
            /\ ~out.rejected
            /\ \E v \in out.vs :
                 stored' = [kind |-> IF out.thrown THEN "none" ELSE "value",
                            path |-> Path(out.checked), ty |-> S,
                            v |-> IF out.thrown THEN 0 ELSE v, log |-> out.log,
                            thrown |-> out.thrown, ub |-> out.ub]
    /\ UNCHANGED <<ep, a, b, last>>

\* a op= b, which is a = static_cast<T>(a op b) for T the type of a: the
\* operator, the conversion of its result into T, and the assignment. A
\* handler that throws in the operator or in the conversion leaves a as it
\* was. last.before keeps the value a held.
CompoundAssign(op) ==
    /\ last.op = "none"
    /\ a.ty.safe
    /\ legal_overload(a.ty, b.ty)
    /\ \E out \in binary_return_value(op, ep, a.ty, a.v, b.ty, b.v) :
         /\ ~out.rejected
         /\ \E v \in out.vs :
              \E cast \in {IF out.thrown
                           THEN Outcome(FALSE, out.checked, {a.v}, FALSE,
                                        [log |-> out.log, thrown |-> TRUE])
                           ELSE validated_cast(a.ty, ep,
                                               result_type(op, a.ty, b.ty), v)} :
                 /\ ~cast.rejected
                 /\ \E w \in cast.vs :
                      /\ a' = IF cast.thrown THEN a ELSE [a EXCEPT !.v = w]
                      /\ last' = [op |-> op,
                                  kind |-> IF cast.thrown THEN "none" ELSE "value",
                                  path |-> Path(out.checked \/ cast.checked),
                                  ty |-> a.ty, v |-> a'.v, b |-> FALSE,
                                  before |-> a.v,
                                  log |-> IF out.thrown THEN out.log
                                          ELSE out.log \o cast.log,
                                  thrown |-> cast.thrown,
                                  ub |-> out.ub \/ cast.ub]
    /\ UNCHANGED <<ep, b, stored>>

\* the temporaries of the last expression go out of scope
Discard ==
    /\ last.op # "none"
    /\ last' = Nothing
    /\ stored' = NotStored
    /\ UNCHANGED <<ep, a, b>>

Next ==
    \/ ConstructLeft
    \/ ConstructRight
    \/ BuiltinRight
    \/ Binary("add")
    \/ Binary("sub")
    \/ Binary("mul")
    \/ Binary("div")
    \/ Binary("mod")
    \/ Binary("shl")
    \/ Binary("shr")
    \/ Binary("or")
    \/ Binary("and")
    \/ Binary("xor")
    \/ Compare("lt")
    \/ Compare("gt")
    \/ Compare("le")
    \/ Compare("ge")
    \/ Compare("eq")
    \/ Compare("ne")
    \/ Convert
    \/ ConvertToBuiltin
    \/ Assign
    \/ Discard

Spec == Init /\ [][Next]_vars


---------------------------------------------------------------------------
(* Compound assignments: the operands are constructed, then one a op= b    *)

\* a is a ranged value and b a ranged value or a plain int, each holding
\* a value of its range
InitCompound ==
    /\ ep \in Policies
    /\ a \in {x \in [ty : OperandTypes, v : SourceValues \cup UnsignedSourceValues] :
                x.ty.min <= x.v /\ x.v <= x.ty.max}
    /\ b \in {x \in [ty : OperandTypes \cup {builtin(IntT)},
                      v : SourceValues \cup UnsignedSourceValues] :
                x.ty.min <= x.v /\ x.v <= x.ty.max}
    /\ last = Nothing
    /\ stored = NotStored

NextCompound ==
    \/ CompoundAssign("add")
    \/ CompoundAssign("sub")
    \/ CompoundAssign("mul")
    \/ CompoundAssign("div")
    \/ CompoundAssign("mod")
    \/ CompoundAssign("shl")
    \/ CompoundAssign("shr")
    \/ CompoundAssign("or")
    \/ CompoundAssign("and")
    \/ CompoundAssign("xor")

SpecCompound == InitCompound /\ [][NextCompound]_vars

---------------------------------------------------------------------------
(* example1: safe<int8_t> x, y; safe<int8_t> z = x + y, for every x and y   *)

Int8Values == TMin(Int8T) .. TMax(Int8T)

InitInt8 ==
    /\ ep = default_exception_policy
    /\ a \in [ty : {safe(Int8T)}, v : Int8Values]
    /\ b \in [ty : {safe(Int8T)}, v : Int8Values]
    /\ last = Nothing
    /\ stored = NotStored

NextInt8 ==
    \/ Binary("add")
    \/ Assign

SpecInt8 == InitInt8 /\ [][NextInt8]_vars

---------------------------------------------------------------------------
(* safe_compare applied to built-in integers of every pair of types         *)

\* the values next to the limits of the storage types
CompareEdges ==
    {TMin(IntT), TMin(IntT) + 1, TMin(Int8T) - 1, TMin(Int8T), 0 - 2, 0 - 1,
     0, 1, 2, TMax(Int8T), TMax(Int8T) + 1, TMax(UInt8T), TMax(UInt8T) + 1,
     TMax(IntT) - 1, TMax(IntT), TMax(IntT) + 1, TMax(UIntT) - 1, TMax(UIntT)}

CompareOperands ==
    {[ty |-> builtin(T), v |-> v] :
        <<T, v>> \in {p \in {Int8T, UInt8T, IntT, UIntT} \X CompareEdges :
                         TMin(p[1]) <= p[2] /\ p[2] <= TMax(p[1])}}

InitCompare ==
    /\ ep = default_exception_policy
    /\ a \in CompareOperands
    /\ b \in CompareOperands
    /\ last = Nothing
    /\ stored = NotStored

\* safe_compare::<relation>(a, b): the answer is left in last.b
SafeCompare(name, answer) ==
    /\ last.op = "none"
    /\ last' = [Nothing EXCEPT !.op = name, !.kind = "bool",
                               !.path = "safe_compare", !.b = answer]
    /\ UNCHANGED <<ep, a, b, stored>>


NextCompare ==
    \/ SafeCompare("less_than", less_than(a.ty.st, a.v, b.ty.st, b.v))
    \/ SafeCompare("greater_than", greater_than(a.ty.st, a.v, b.ty.st, b.v))
    \/ SafeCompare("less_than_equal", less_than_equal(a.ty.st, a.v, b.ty.st, b.v))
    \/ SafeCompare("greater_than_equal", greater_than_equal(a.ty.st, a.v, b.ty.st, b.v))
    \/ SafeCompare("equal", equal(a.ty.st, a.v, b.ty.st, b.v))
    \/ SafeCompare("not_equal", not_equal(a.ty.st, a.v, b.ty.st, b.v))

SpecCompare == InitCompare /\ [][NextCompare]_vars

---------------------------------------------------------------------------
(* Every exception policy: default construction and the dispatch of each   *)
(* error kind                                                               *)

\* ignore_exception, trap_exception, throw_exception
ErrorActions == {"ignore", "trap", "throw"}

\* exception_policy<AE, IDB, UB, UV> for every choice of the four handlers
AllPolicies ==
    {exception_policy(ae, idb, ub, uv) :
        <<ae, idb, ub, uv>> \in
            ErrorActions \X ErrorActions \X ErrorActions \X ErrorActions}

InitPolicies ==
    /\ ep \in AllPolicies
    /\ a = [ty |-> safe(Int8T), v |-> 0]
    /\ b = [ty |-> safe(Int8T), v |-> 0]
    /\ last = Nothing
    /\ stored = NotStored

\* S x; for a ranged type S: the default constructor
DefaultConstruct ==
    /\ last.op = "none"
    /\ \E S \in OperandTypes \cup ConvertTypes :
         \E out \in {default_constructor(ep, S)} :
            /\ ~out.rejected
            /\ \E v \in out.vs :
                 /\ last' = [Produced("default", S, out, v)
                                EXCEPT !.kind = "none", !.v = 0]
                 /\ a' = IF out.thrown THEN a ELSE [ty |-> S, v |-> v]
    /\ UNCHANGED <<ep, b, stored>>

\* dispatch<EP, E>(msg) for an error kind E; the instantiation does not
\* build when E's category has no dispatch_case or its handler is trap
DispatchError ==
    /\ last.op = "none"
    /\ \E e \in ErrorKinds :
         /\ make_safe_numerics_action(e) # "no_action"
         /\ ~Trapped(ep, {make_safe_numerics_action(e)})
         /\ \E trail \in {dispatch(ep, e, NoTrail)} :
              last' = [Nothing EXCEPT !.op = "dispatch", !.log = trail.log,
                                      !.thrown = trail.thrown]
    /\ UNCHANGED <<ep, a, b, stored>>

\* S x; is >> x; for the default-constructed ranged value a; the text on
\* the stream is one that is no numeral, or a numeral
Input ==
    /\ last.op = "default" /\ ~last.thrown
    /\ \E text \in {[parses |-> FALSE, n |-> 0]}
                     \cup [parses : {TRUE}, n : SourceValues] :
         \E out \in safe_base_input(ep, a.ty, a.v, text) :
            /\ ~out.rejected
            /\ a' = [a EXCEPT !.v = out.v]
            /\ last' = [op |-> "input", kind |-> "none", text |-> text,
                        before |-> a.v, log |-> out.log,
                        thrown |-> out.thrown, ub |-> out.ub]
    /\ UNCHANGED <<ep, b, stored>>

NextPolicies ==
    \/ DefaultConstruct
    \/ DispatchError
    \/ Input

SpecPolicies == InitPolicies /\ [][NextPolicies]_vars

---------------------------------------------------------------------------
(* interval<R>: the operators, orderings and containment tests applied to   *)
(* every pair of small intervals                                            *)

\* the greatest magnitude of an interval bound
MaxBound == 4

IntervalBounds == (0 - MaxBound) .. MaxBound

\* the ranged types whose static range is [l, u], l <= u
Intervals ==
    {safe_base(IntT, p[1], p[2]) :
        p \in {q \in IntervalBounds \X IntervalBounds : q[1] <= q[2]}}

InitInterval ==
    /\ ep = default_exception_policy
    /\ a \in [ty : Intervals, v : {0}]
    /\ b \in [ty : Intervals, v : {0}]
    /\ last = Nothing
    /\ stored = NotStored

\* what an interval operation on the ranges of a and b leaves in last: an
\* interval i, or the three-valued answer tri of a test (of the point p)
IntervalResult(op, kind, i, tri, p) ==
    [op |-> op, kind |-> kind, i |-> i, tri |-> tri, p |-> p]

\* t + u, t - u, t * u, t / u, t % u; / and % assert that u excludes 0
IntervalArithmetic(op) ==
    /\ last.op = "none"
    /\ \E t \in {operand_interval(IntT, a.ty)} :
         \E u \in {operand_interval(IntT, b.ty)} :
            /\ op \in {"div", "mod"} =>
                  tri_bool(excludes_point(u, checked_result(0)))
            /\ last' = IntervalResult(op, "interval",
                                      interval_operation(op, IntT, t, u),
                                      indeterminate, 0)
    /\ UNCHANGED <<ep, a, b, stored>>

\* t < u, t > u, t <= u, t >= u
IntervalOrdering(rel) ==
    /\ last.op = "none"
    /\ \E t \in {operand_interval(IntT, a.ty)} :
         \E u \in {operand_interval(IntT, b.ty)} :
            last' = IntervalResult(rel, "tribool", t,
                                   CASE rel = "lt" -> interval_lt(t, u)
                                     [] rel = "gt" -> interval_gt(t, u)
                                     [] rel = "le" -> interval_le(t, u)
                                     [] OTHER -> interval_ge(t, u),
                                   0)
    /\ UNCHANGED <<ep, a, b, stored>>

\* i.includes(t), i.excludes(t) and intersect(i, t), i the range of a and t
\* the range of b
IntervalContainment(test) ==
    /\ last.op = "none"
    /\ \E i \in {operand_interval(IntT, a.ty)} :
         \E t \in {operand_interval(IntT, b.ty)} :
            last' = IntervalResult(test, "tribool", i,
                                   CASE test = "includes" -> includes(i, t)
                                     [] test = "excludes" -> excludes(i, t)
                                     [] OTHER -> intersect(i, t),
                                   0)
    /\ UNCHANGED <<ep, a, b, stored>>

\* i.includes(p) and i.excludes(p) for a point p
IntervalPoint(test) ==
    /\ last.op = "none"
    /\ \E i \in {operand_interval(IntT, a.ty)} :
         \E p \in IntervalBounds :
            last' = IntervalResult(test, "tribool", i,
                                   IF test = "includes_point"
                                   THEN includes_point(i, checked_result(p))
                                   ELSE excludes_point(i, checked_result(p)),
                                   p)
    /\ UNCHANGED <<ep, a, b, stored>>

NextInterval ==
    \/ IntervalArithmetic("add")
    \/ IntervalArithmetic("sub")
    \/ IntervalArithmetic("mul")
    \/ IntervalArithmetic("div")
    \/ IntervalArithmetic("mod")
    \/ IntervalOrdering("lt")
    \/ IntervalOrdering("gt")
    \/ IntervalOrdering("le")
    \/ IntervalOrdering("ge")
    \/ IntervalContainment("includes")
    \/ IntervalContainment("excludes")
    \/ IntervalContainment("intersect")
    \/ IntervalPoint("includes_point")
    \/ IntervalPoint("excludes_point")

SpecInterval == InitInterval /\ [][NextInterval]_vars

---------------------------------------------------------------------------
(* The policies of a binary operation: each operand is a built-in type or  *)
(* a ranged type with its promotion and exception policy (void when the    *)
(* template argument is void).                                             *)

PolicyOperands ==
    {[safe |-> FALSE, P |-> "void", E |-> "void"]}
    \cup [safe : {TRUE},
          P : {"void", "native", "automatic", "cpp"},
          E : {"void", "loose_exception_policy", "strict_exception_policy",
               "loose_trap_policy"}]

InitResolve ==
    /\ ep = default_exception_policy
    /\ a \in [ty : PolicyOperands, v : {0}]
    /\ b \in [ty : PolicyOperands, v : {0}]
    /\ last = Nothing
    /\ stored = NotStored

\* a binary operator on a and b is instantiated: both policies resolve
Resolve ==
    /\ last.op = "none"
    /\ ~common_promotion_policy(a.ty, b.ty).rejected
    /\ ~common_exception_policy(a.ty, b.ty).rejected
    /\ last' = [op |-> "resolve", kind |-> "none",
                P |-> common_promotion_policy(a.ty, b.ty).type,
                E |-> common_exception_policy(a.ty, b.ty).type]
    /\ UNCHANGED <<ep, a, b, stored>>

NextResolve == Resolve

SpecResolve == InitResolve /\ [][NextResolve]_vars

---------------------------------------------------------------------------
(* checked_result<R>: construction, copy and conversion, and the           *)
(* extraction of the value                                                  *)

\* checked_result<R>(const checked_result<T> & t): for T = R the defaulted
\* copy constructor; for another T the converting constructor, whose body
\* leaves m_contents without an initializer (contents has no default
\* constructor) and reads t.m_r and t.m_msg, which checked_result<T> does
\* not have: its instantiation does not build
checked_result_convert(R, T, c) == [rejected |-> R # T, c |-> c]

\* checked_result<R>::operator R(): m_contents.m_r, without a test of m_e;
\* of a failure it reads the union member that is not active
checked_result_operator_R(R, c) ==
    [vs |-> IF exception(c) THEN Unspecified(R) ELSE {c.r}, ub |-> exception(c)]

\* checked_result<R>(r) and checked_result<R>(e, msg); the second asserts
\* that e is not success
CheckedConstruct ==
    /\ last.op = "none"
    /\ \E R \in BuiltinTypes :
         \/ \E r \in {TMin(R), 0, 1, TMax(R)} :
               last' = [op |-> "from_value", kind |-> "checked", R |-> R,
                        c |-> checked_result(r), v |-> 0, ub |-> FALSE]
         \/ \E e \in ErrorKinds \ {Success} :
               last' = [op |-> "from_error", kind |-> "checked", R |-> R,
                        c |-> checked_failure(e), v |-> 0, ub |-> FALSE]
    /\ UNCHANGED <<ep, a, b, stored>>

\* checked_result<R> d(c) for the checked result c in last
CheckedConvert ==
    /\ last.kind = "checked"
    /\ last.op \in {"from_value", "from_error"}
    /\ \E R \in BuiltinTypes :
         \E out \in {checked_result_convert(R, last.R, last.c)} :
            /\ ~out.rejected
            /\ last' = [last EXCEPT !.op = "convert", !.R = R, !.c = out.c]
    /\ UNCHANGED <<ep, a, b, stored>>

\* static_cast<R>(c) for the checked result c in last
CheckedExtract ==
    /\ last.kind = "checked"
    /\ last.op # "operator_R"
    /\ \E out \in {checked_result_operator_R(last.R, last.c)} :
         \E v \in out.vs :
            last' = [last EXCEPT !.op = "operator_R", !.v = v, !.ub = out.ub]
    /\ UNCHANGED <<ep, a, b, stored>>

NextChecked ==
    \/ CheckedConstruct
    \/ CheckedConvert
    \/ CheckedExtract

SpecChecked == Init /\ [][NextChecked]_vars

---------------------------------------------------------------------------
(* Properties                                                               *)

\* v is one of the values a variable of the ranged type ty may hold
WithinRange(ty, v) == ty.min <= v /\ v <= ty.max

\* C1: under the default (throwing) policy, after any sequence of
\* constructions and binary operators, every ranged value produced (either
\* operand, the operator's result, the value stored from it) holds a value
\* between the Min and Max its own type declares.
C1_ProducedWithinRange ==
    ep = default_exception_policy =>
        /\ WithinRange(a.ty, a.v)
        /\ WithinRange(b.ty, b.v)
        /\ (last.kind = "value" => WithinRange(last.ty, last.v))
        /\ (stored.kind = "value" => WithinRange(stored.ty, stored.v))


\* C2: for all 8-bit signed a and b held in ranged values, storing a + b
\* into an 8-bit signed ranged value either stores exactly a + b (when it
\* lies in [-128, 127]) with no report, or reports an overflow through the
\* arithmetic-error handler and stores nothing; 127 + 2 reports
\* positive_overflow, and the wrapped sum is never stored.
C2_Int8AddStored ==
    (last.op = "add" /\ (stored.kind = "value" \/ stored.thrown)) =>
        LET sum == a.v + b.v
        IN /\ last.kind = "value" /\ last.v = sum /\ last.log = << >>
           /\ IF TMin(Int8T) <= sum /\ sum <= TMax(Int8T)
              THEN stored.kind = "value" /\ stored.v = sum /\ stored.log = << >>
              ELSE /\ stored.kind = "none" /\ stored.thrown
                   /\ stored.log =
                        <<[cat |-> "arithmetic_error",
                           e |-> IF sum > TMax(Int8T)
                                 THEN "positive_overflow_error"
                                 ELSE "negative_overflow_error"]>>

\* 127 + 2 was added and stored: the store reported positive_overflow
C2_Witness ==
    /\ a.v = 127 /\ b.v = 2 /\ last.op = "add"
    /\ stored.thrown
    /\ stored.log = <<[cat |-> "arithmetic_error", e |-> "positive_overflow_error"]>>


\* the mathematically exact result of a op b, for an op of + - * /
ExactResult(op, x, y) ==
    CASE op = "add" -> x + y
      [] op = "sub" -> x - y
      [] op = "mul" -> ExactMul(x, y)
      [] op = "mod" -> TruncMod(x, y)
      [] OTHER -> TruncDiv(x, y)

\* C3: for + - * /, when exception_possible() is false for the operand
\* types, then for operand values within the operands' static ranges the
\* native operation in the result storage type (the fast path) yields the
\* mathematically exact result, with no overflow, wraparound or division by
\* zero, and no handler of the exception policy is invoked.
C3_FastPathSound ==
    (/\ last.op \in {"add", "sub", "mul", "div"}
     /\ ~exception_possible(last.op, a.ty, b.ty)
     /\ WithinRange(a.ty, a.v) /\ WithinRange(b.ty, b.v)) =>
        /\ last.path = "fast"
        /\ last.kind = "value"
        /\ ~last.ub
        /\ last.log = << >> /\ ~last.thrown
        /\ (last.op = "div" => b.v # 0)
        /\ last.v = ExactResult(last.op, a.v, b.v)
        /\ TMin(last.ty.st) <= last.v /\ last.v <= TMax(last.ty.st)

\* 10 * -1 ran on the fast path and gave -10
C3_Witness ==
    /\ last.op = "mul" /\ last.path = "fast"
    /\ a.v = 10 /\ b.v = 0 - 1
    /\ last.v = 0 - 10


\* C4: adding two ranged values whose static ranges are both [0, 10] never
\* takes the runtime-checked path: exception_possible() is false, the
\* result's declared range is [0, 20], the sum is computed on the fast path
\* without a report, and the operator is accepted (not rejected at build
\* time) under a policy whose arithmetic-error action is trap.
C4_SmallRangesAddUnchecked ==
    (a.ty = safe_base(Int8T, 0, 10) /\ b.ty = safe_base(Int8T, 0, 10)) =>
        /\ ~exception_possible("add", a.ty, b.ty)
        /\ result_type("add", a.ty, b.ty).min = 0
        /\ result_type("add", a.ty, b.ty).max = 20
        /\ \A out \in binary_return_value("add", loose_trap_policy,
                                          a.ty, a.v, b.ty, b.v) : ~out.rejected
        /\ (last.op = "add" =>
              /\ last.path = "fast"
              /\ last.log = << >> /\ ~last.thrown
              /\ last.ty.min = 0 /\ last.ty.max = 20)

\* 10 + 10 was added under the trapping policy, giving 20 in [0, 20]
C4_Witness ==
    /\ ep = loose_trap_policy
    /\ a = [ty |-> safe_base(Int8T, 0, 10), v |-> 10]
    /\ b = [ty |-> safe_base(Int8T, 0, 10), v |-> 10]
    /\ last.op = "add" /\ last.path = "fast" /\ last.v = 20
    /\ last.ty.min = 0 /\ last.ty.max = 20

\* C5 as stated: for every pair of operand types, when the divisor's static
\* range excludes zero the division operator never takes the checked path.
C5_NonzeroDivisorNeverChecked ==
    (/\ last.op = "div"
     /\ (b.ty.max < 0 \/ b.ty.min > 0)) =>
        /\ ~exception_possible("div", a.ty, b.ty)
        /\ last.path = "fast"

\* whether every bound of the quotient interval of T / U is a value of the
\* result storage type (no corner of the interval computation failed)
QuotientRepresentable(T, U) ==
    LET ri == get_r_type_interval("div", T, U)
    IN ~exception(ri.l) /\ ~exception(ri.u)

\* C5 amended: when the divisor's static range excludes zero and both bounds
\* of the quotient interval are representable in the result storage type,
\* the division operator never takes the checked path.
C5_NonzeroDivisorRepresentableQuotient ==
    (/\ last.op = "div"
     /\ (b.ty.max < 0 \/ b.ty.min > 0)
     /\ QuotientRepresentable(a.ty, b.ty)) =>
        /\ ~exception_possible("div", a.ty, b.ty)
        /\ last.path = "fast"
        /\ last.log = << >>

\* a division by a divisor of range [1, 10] ran on the fast path
C5_Witness ==
    /\ last.op = "div" /\ last.path = "fast"
    /\ b.ty = safe_base(Int8T, 1, 10) /\ b.v = 3
    /\ a.v = 10 /\ last.v = 3


\* the one report of a domain error, as the arithmetic-error handler sees it
DomainErrorReport == <<[cat |-> "arithmetic_error", e |-> "domain_error"]>>

\* C6: when the divisor's static range includes zero, division and modulus
\* always take the runtime-checked path, which checks the runtime divisor
\* again: 10 divided by a runtime 0 reports domain_error through the
\* arithmetic-error handler, and where the handler throws the operation
\* ends there, no native division by zero having been performed.
C6_ZeroDivisorChecked ==
    (/\ last.op \in {"div", "mod"}
     /\ b.ty.min <= 0 /\ 0 <= b.ty.max) =>
        /\ exception_possible(last.op, a.ty, b.ty)
        /\ last.path = "checked"
        /\ (a.v = 10 /\ b.v = 0 =>
              /\ last.log = DomainErrorReport
              /\ last.thrown = (Handler(ep, "arithmetic_error") = "throw")
              /\ (last.thrown => ~last.ub /\ last.kind = "none"))

\* 10 / 0 was evaluated and reported domain_error by a throw
C6_Witness ==
    /\ last.op = "div" /\ a.v = 10 /\ b.v = 0
    /\ last.path = "checked"
    /\ last.log = DomainErrorReport /\ last.thrown

\* C7 as stated: operator< on a signed ranged value holding -1 and an
\* unsigned ranged value holding its type's maximum is accepted under every
\* exception policy, returns true and reports no failure.
C7_MinusOneBelowUnsignedMax ==
    (/\ a.ty.safe /\ a.ty.st.sg /\ a.v = 0 - 1
     /\ b.ty.safe /\ ~b.ty.st.sg /\ b.v = TMax(b.ty.st)) =>
        /\ (\A out \in compare_return_value("lt", ep, a.ty, a.v, b.ty, b.v) :
               ~out.rejected)
        /\ (last.op = "lt" =>
              last.kind = "bool" /\ last.b /\ last.log = << >> /\ ~last.thrown)

\* C8: for all built-in integers t and u of every combination of signed and
\* unsigned types, less_than(t, u) is true exactly when t < u and
\* equal(t, u) exactly when t = u mathematically; greater_than(t, u) is
\* less_than(u, t), less_than_equal is not greater_than, greater_than_equal
\* is not less_than, not_equal is not equal; and exactly one of less_than,
\* equal, greater_than holds of every pair.
C8_SafeCompareExact ==
    LET T == a.ty.st
        U == b.ty.st
        lt == less_than(T, a.v, U, b.v)
        gt == greater_than(T, a.v, U, b.v)
        eq == equal(T, a.v, U, b.v)
    IN /\ (last.op = "less_than" => last.b = (a.v < b.v))
       /\ (last.op = "equal" => last.b = (a.v = b.v))
       /\ (last.op = "greater_than" =>
             last.b = less_than(U, b.v, T, a.v) /\ last.b = (a.v > b.v))
       /\ (last.op = "less_than_equal" => last.b = ~gt /\ last.b = (a.v <= b.v))
       /\ (last.op = "greater_than_equal" => last.b = ~lt /\ last.b = (a.v >= b.v))
       /\ (last.op = "not_equal" => last.b = ~eq /\ last.b = (a.v # b.v))
       /\ (last.op # "none" =>
             /\ (lt \/ eq \/ gt)
             /\ ~(lt /\ eq) /\ ~(lt /\ gt) /\ ~(eq /\ gt))

\* less_than(-1, the greatest unsigned) was applied and answered true
C8_Witness ==
    /\ last.op = "less_than" /\ last.b
    /\ a = [ty |-> builtin(IntT), v |-> 0 - 1]
    /\ b = [ty |-> builtin(UIntT), v |-> TMax(UIntT)]

\* C9: for all ranged operands a and b under the same policy, a + b and
\* b + a take the same path, have the same declared result range (the same
\* result type), yield the same value and report the same failures, or none.
C9_AddCommutes ==
    (last.op = "add" /\ a.ty.safe /\ b.ty.safe) =>
        LET swapped == binary_return_value("add", ep, b.ty, b.v, a.ty, a.v)
            ty == result_type("add", b.ty, a.ty)
        IN /\ swapped = binary_return_value("add", ep, a.ty, a.v, b.ty, b.v)
           /\ ty = last.ty
           /\ \E out \in swapped :
                /\ ~out.rejected
                /\ \E v \in out.vs : Produced("add", ty, out, v) = last

\* an addition of operands of two different types, on the checked path
C9_Witness ==
    /\ last.op = "add" /\ last.path = "checked" /\ last.kind = "value"
    /\ a.ty = safe(IntT) /\ b.ty = safe(UIntT)
    /\ a.v = 3 /\ b.v = 10 /\ last.v = 13

\* C10: for every ranged value x of range [Min, Max] and every ranged type
\* whose range contains [Min, Max], converting x to the wider type yields
\* x's value without a report, and converting that result back to x's type
\* yields the original value again, without a report.
C10_WidenAndBack ==
    (/\ last.op = "convert"
     /\ WithinRange(a.ty, a.v)
     /\ last.ty.min <= a.ty.min /\ a.ty.max <= last.ty.max) =>
        /\ last.kind = "value" /\ last.v = a.v
        /\ last.log = << >> /\ ~last.thrown /\ ~last.ub
        /\ (stored # NotStored =>
              /\ stored.kind = "value" /\ stored.v = a.v
              /\ stored.ty = a.ty
              /\ stored.log = << >> /\ ~stored.thrown /\ ~stored.ub)

\* -1 of range [-10, -1] was converted to a 16-bit type and back
C10_Witness ==
    /\ last.op = "convert" /\ last.ty = safe(IntT)
    /\ a = [ty |-> safe_base(Int8T, 0 - 10, 0 - 1), v |-> 0 - 1]
    /\ stored.kind = "value" /\ stored.v = 0 - 1 /\ stored.path = "checked"


\* the type T is a signed type with its full native range as static range
FullSignedRange(T) == T.st.sg /\ T.min = TMin(T.st) /\ T.max = TMax(T.st)

\* the log holds a report of kind e to the implementation-defined-behavior
\* handler
ShiftReport(log, e) ==
    \E i \in DOMAIN log :
        log[i] = [cat |-> "implementation_defined_behavior", e |-> e]

\* C11 as stated: a left shift of a ranged value by an amount whose static
\* range is the full range of a signed type takes the runtime-checked path;
\* there a negative runtime amount reports negative_shift and an amount
\* greater than or equal to the result type's bit width reports
\* shift_too_large, both to the implementation-defined-behavior handler.
C11_LeftShiftUnboundedAmount ==
    (/\ last.op = "shl"
     /\ a.ty.safe
     /\ FullSignedRange(b.ty)) =>
        /\ exception_possible("shl", a.ty, b.ty)
        /\ last.path = "checked"
        /\ (b.v < 0 => ShiftReport(last.log, "negative_shift"))
        /\ (b.v >= result_base_type("shl", a.ty, b.ty).bits =>
              ShiftReport(last.log, "shift_too_large"))


\* the ranged types a validated cast is asked to produce
CastTargets == OperandTypes \cup ConvertTypes

\* the log holds exactly one report, of an overflow, to the arithmetic-error
\* handler
RangeReport(log) ==
    /\ Len(log) = 1
    /\ log[1].cat = "arithmetic_error"
    /\ log[1].e \in {"positive_overflow_error", "negative_overflow_error",
                     "range_error"}

\* C12 as stated: the validated cast of the ranged value a, of static range
\* [a.ty.min, a.ty.max] and holding a value of that range, into any target S of declared [Min, Max] is
\* rejected at build time when the two ranges are disjoint; is the plain
\* conversion, keeping the value and reporting nothing, when [Min, Max]
\* contains the source range; and is otherwise the runtime range check,
\* which passes exactly the values within [Min, Max] and reports every
\* other value to the exception policy.
C12_ValidatedCastTrichotomy ==
    \A S \in CastTargets :
        LET out == validated_cast(S, ep, a.ty, a.v)
            disjoint == a.ty.max < S.min \/ S.max < a.ty.min
            contains == S.min <= a.ty.min /\ a.ty.max <= S.max
        IN (a.ty.safe /\ WithinRange(a.ty, a.v)) =>
             /\ disjoint => out.rejected
             /\ contains =>
                  /\ ~out.rejected /\ ~out.checked
                  /\ out.vs = {a.v} /\ out.log = << >> /\ ~out.thrown
             /\ (~disjoint /\ ~contains) =>
                  /\ out.checked
                  /\ ~out.rejected =>
                       IF WithinRange(S, a.v)
                       THEN out.vs = {a.v} /\ out.log = << >> /\ ~out.thrown
                       ELSE RangeReport(out.log)


\* C13 as stated: converting the ranged value a, of declared [Min, Max] and
\* holding a value of that range, to a plain numeric type R whose native
\* range contains [Min, Max] is accepted under every policy, returns the
\* stored value unchanged and reports nothing; when R's native range and
\* [Min, Max] are disjoint the conversion is rejected at build time.
C13_ConvertToPlainType ==
    \A R \in BuiltinTypes :
        LET out == operator_R(ep, a.ty, R, a.v)
            contains == TMin(R) <= a.ty.min /\ a.ty.max <= TMax(R)
            disjoint == a.ty.max < TMin(R) \/ TMax(R) < a.ty.min
        IN (a.ty.safe /\ WithinRange(a.ty, a.v)) =>
             /\ contains =>
                  /\ ~out.rejected
                  /\ out.vs = {a.v} /\ out.log = << >> /\ ~out.thrown
                  /\ (last.op = "cast" /\ last.ty = builtin(R)) =>
                        last.v = a.v /\ last.log = << >>
             /\ disjoint => out.rejected


\* the one report of an uninitialized value, as its handler sees it
UninitializedReport ==
    <<[cat |-> "uninitialized_value", e |-> "uninitialized_value"]>>

\* C14: default construction of a ranged value invokes the policy's
\* uninitialized-value handler exactly once, with the error kind
\* uninitialized_value, and no other handler, whatever the actions of the
\* arithmetic, implementation-defined and undefined-behavior categories:
\* the construction ends by a throw exactly when that handler throws and is
\* rejected at build time exactly when that handler is trap.
C14_DefaultConstructionReports ==
    /\ \A S \in OperandTypes :
          default_constructor(ep, S).rejected = (ep.uninitialized_value = "trap")
    /\ last.op = "default" =>
          /\ last.log = UninitializedReport
          /\ last.thrown = (ep.uninitialized_value = "throw")

\* a ranged value was default-constructed under a policy that throws on
\* arithmetic errors and ignores uninitialized values
C14_Witness ==
    /\ last.op = "default" /\ ~last.thrown
    /\ last.log = UninitializedReport
    /\ ep.arithmetic_error = "throw" /\ ep.uninitialized_value = "ignore"
    /\ a.ty = safe_base(Int8T, 1, MaxRange)


\* the category the error kind e belongs to
ExpectedCategory(e) ==
    CASE e \in {"positive_overflow_error", "negative_overflow_error",
                "underflow_error", "range_error", "domain_error",
                "precision_overflow_error"} -> "arithmetic_error"
      [] e \in {"negative_shift", "negative_value_shift", "shift_too_large"}
            -> "implementation_defined_behavior"
      [] e = "uninitialized_value" -> "uninitialized_value"
      [] e = "success" -> "no_action"

\* C15: every error kind of the closed set has a category: the six
\* overflow, underflow, range, domain and precision kinds map to
\* arithmetic_error, the three shift kinds to
\* implementation_defined_behavior, uninitialized_value to
\* uninitialized_value and success to no_action; and the dispatch of a kind
\* invokes the handler of exactly that category, once, and no other.
C15_ErrorKindCategories ==
    /\ Cardinality(ErrorKinds) = 11
    /\ \A e \in ErrorKinds : make_safe_numerics_action(e) = ExpectedCategory(e)
    /\ last.op = "dispatch" =>
          /\ Len(last.log) = 1
          /\ last.log[1].cat = ExpectedCategory(last.log[1].e)
          /\ last.thrown = (ep[last.log[1].cat] = "throw")

\* shift_too_large was dispatched under a policy that ignores arithmetic
\* errors and throws on implementation-defined behaviour
C15_Witness ==
    /\ last.op = "dispatch"
    /\ last.log = <<[cat |-> "implementation_defined_behavior",
                     e |-> "shift_too_large"]>>
    /\ ep.arithmetic_error = "ignore"
    /\ ep.implementation_defined_behavior = "throw"
    /\ last.thrown


\* the exact results x op y over the points x of [l1, u1] and y of [l2, u2]
PointResults(op, l1, u1, l2, u2) ==
    {ExactResult(op, x, y) : <<x, y>> \in (l1 .. u1) \X (l2 .. u2)}

\* the least interval that holds every number of the set vs
Hull(vs) ==
    plain_interval(CHOOSE m \in vs : \A v \in vs : m <= v,
                   CHOOSE m \in vs : \A v \in vs : v <= m)

\* C16: for intervals t = [l1, u1] and u = [l2, u2] with l1 <= u1 and
\* l2 <= u2, t + u is [l1+l2, u1+u2], t - u is [l1-u2, u1-l2], t * u and
\* t / u are the least and the greatest of the four corner results, and
\* each result holds x op y for every x in t and y in u (for / with 0 not
\* in u) and is the smallest such interval.
C16_IntervalArithmeticExact ==
    LET l1 == a.ty.min
        u1 == a.ty.max
        l2 == b.ty.min
        u2 == b.ty.max
        corners == {ExactResult(last.op, l1, l2), ExactResult(last.op, l1, u2),
                    ExactResult(last.op, u1, l2), ExactResult(last.op, u1, u2)}
    IN (last.op \in {"add", "sub", "mul", "div"} /\ last.kind = "interval") =>
         /\ last.op = "add" => last.i = plain_interval(l1 + l2, u1 + u2)
         /\ last.op = "sub" => last.i = plain_interval(l1 - u2, u1 - l2)
         /\ last.op \in {"mul", "div"} => last.i = Hull(corners)
         /\ last.i = Hull(PointResults(last.op, l1, u1, l2, u2))

\* [-4, 3] was divided by [-3, -2], giving [-1, 2]
C16_Witness ==
    /\ last.op = "div" /\ last.kind = "interval"
    /\ a.ty = safe_base(IntT, 0 - 4, 3)
    /\ b.ty = safe_base(IntT, 0 - 3, 0 - 2)
    /\ last.i = plain_interval(0 - 1, 2)


\* C17 as stated: for intervals t and u with 0 not in u, the interval t % u
\* (the least and the greatest of the four corner results) holds x % y for
\* every x in t and every y in u.
C17_IntervalModulusContains ==
    (last.op = "mod" /\ last.kind = "interval") =>
        \A x \in a.ty.min .. a.ty.max :
            \A y \in b.ty.min .. b.ty.max :
                tri_bool(includes_point(last.i, checked_result(TruncMod(x, y))))


\* C18: the ordering of intervals has three answers. t < u is true exactly
\* when every element of t is less than every element of u (t.u < u.l),
\* false exactly when t.l > u.u, and indeterminate for every other pair;
\* t > u is true exactly when t.l > u.u, false exactly when t.u < u.l, and
\* indeterminate otherwise; so t < u is true iff u > t is true.
C18_IntervalOrderingThreeValued ==
    LET t == operand_interval(IntT, a.ty)
        u == operand_interval(IntT, b.ty)
        below == a.ty.max < b.ty.min
        above == a.ty.min > b.ty.max
        points == (a.ty.min .. a.ty.max) \X (b.ty.min .. b.ty.max)
    IN /\ (last.op = "lt" /\ last.kind = "tribool") =>
            /\ last.tri = (IF below THEN "true"
                           ELSE IF above THEN "false" ELSE indeterminate)
            /\ (last.tri = "true") = (\A p \in points : p[1] < p[2])
       /\ (last.op = "gt" /\ last.kind = "tribool") =>
            /\ last.tri = (IF above THEN "true"
                           ELSE IF below THEN "false" ELSE indeterminate)
            /\ (last.tri = "true") = (\A p \in points : p[1] > p[2])
       /\ (interval_lt(t, u) = "true") = (interval_gt(u, t) = "true")

\* [-2, 1] < [0, 3] was found indeterminate: the ranges overlap
C18_Witness ==
    /\ last.op = "lt" /\ last.kind = "tribool"
    /\ a.ty = safe_base(IntT, 0 - 2, 1)
    /\ b.ty = safe_base(IntT, 0, 3)
    /\ last.tri = indeterminate

\* C19 as stated: t <= u is true whenever every element of t is less than
\* or equal to every element of u (t.u <= u.l), and t >= u is true whenever
\* every element of t is greater than or equal to every element of u
\* (t.l >= u.u).
C19_IntervalOrderingOrEqual ==
    /\ (last.op = "le" /\ last.kind = "tribool") =>
          (a.ty.max <= b.ty.min => last.tri = "true")
    /\ (last.op = "ge" /\ last.kind = "tribool") =>
          (a.ty.min >= b.ty.max => last.tri = "true")

C21_CheckedResultTwoStates ==
    last.kind = "checked" =>
        /\ exception(last.c) = (last.c.e # Success)
        /\ last.op = "from_value" => ~exception(last.c)
        /\ last.op = "from_error" => exception(last.c)
        /\ \A R \in BuiltinTypes :
              LET out == checked_result_convert(R, last.R, last.c)
              IN ~out.rejected /\ out.c.e = last.c.e /\ out.c.r = last.c.r

\* C22 as stated: the conversion to R of a checked result that holds a
\* failure never returns a value.
C22_FailureValueNeverExtracted ==
    (last.kind = "checked" /\ last.op = "operator_R") => ~exception(last.c)


\* C23 as stated: stream input into a ranged value that holds a value of
\* its range: if the text is no numeral, or a numeral with '-' read into an
\* unsigned storage type, or a number outside [Min, Max], a failure is
\* reported, the stored value is not replaced by the rejected number, and
\* the ranged value holds a value of [Min, Max] afterwards, also when the
\* handler returns.
C23_InputValidatesBeforeAcceptance ==
    (last.op = "input" /\ WithinRange(a.ty, last.before)) =>
        LET text == last.text
            unacceptable ==
                \/ ~text.parses
                \/ ~a.ty.st.sg /\ text.n < 0
                \/ ~WithinRange(a.ty, text.n)
        IN unacceptable =>
             /\ last.log # << >>
             /\ text.parses /\ text.n # last.before => a.v # text.n
             /\ WithinRange(a.ty, a.v)


\* the policy an operand type carries: void for a built-in type
CarriedPolicy(T, which) ==
    IF ~T.safe THEN "void" ELSE IF which = "P" THEN T.P ELSE T.E

\* what the resolution of one policy must be, by the two carried policies
ResolutionAsSpecified(tp, up, r, swapped) ==
    IF tp # "void" /\ up # "void" /\ tp # up THEN r.rejected /\ swapped.rejected
    ELSE IF tp = "void" /\ up = "void" THEN r.rejected /\ swapped.rejected
    ELSE LET policy == IF tp # "void" THEN tp ELSE up
         IN /\ ~r.rejected /\ r.type = policy
            /\ ~swapped.rejected /\ swapped.type = policy

\* C24: for a binary operation on operand types T and U, when both carry
\* the same policy, or exactly one carries a policy, the common policy is
\* that policy whatever the order of the operands; when they carry
\* different policies, or neither carries one, the operation is rejected.
\* This holds for the promotion policy and for the exception policy, each
\* by itself; an operation that was instantiated has both as resolved.
C24_PolicyResolution ==
    /\ ResolutionAsSpecified(CarriedPolicy(a.ty, "P"), CarriedPolicy(b.ty, "P"),
                             common_promotion_policy(a.ty, b.ty),
                             common_promotion_policy(b.ty, a.ty))
    /\ ResolutionAsSpecified(CarriedPolicy(a.ty, "E"), CarriedPolicy(b.ty, "E"),
                             common_exception_policy(a.ty, b.ty),
                             common_exception_policy(b.ty, a.ty))
    /\ last.op = "resolve" =>
         /\ last.P \in {CarriedPolicy(a.ty, "P"), CarriedPolicy(b.ty, "P")} \ {"void"}
         /\ last.E \in {CarriedPolicy(a.ty, "E"), CarriedPolicy(b.ty, "E")} \ {"void"}

\* a ranged type and a built-in type resolved to the ranged type's policies
C24_Witness ==
    /\ last.op = "resolve"
    /\ ~a.ty.safe /\ b.ty.safe
    /\ last.P = b.ty.P /\ last.E = b.ty.E


\* the next all-ones value 2^k - 1 at or above x
AllOnesAtOrAbove(x) ==
    CHOOSE m \in {Pow2(k) - 1 : k \in 0..IntBits} :
        /\ m >= x
        /\ \A k \in 0..IntBits : Pow2(k) - 1 >= x => m <= Pow2(k) - 1

\* C25 as stated: for |, & and ^ on two ranged operands that hold values of
\* their ranges, negative ones included, the result's declared range is
\* [0, M], M the next all-ones value at or above the greater of the two
\* maxima for | and ^ and the lesser of them for &, and the stored result
\* lies in [0, M].
C25_BitwiseResultRange ==
    (/\ last.op \in BitwiseOps /\ last.kind = "value"
     /\ a.ty.safe /\ b.ty.safe
     /\ WithinRange(a.ty, a.v) /\ WithinRange(b.ty, b.v)) =>
        LET M == AllOnesAtOrAbove(IF last.op = "and"
                                  THEN Min2(a.ty.max, b.ty.max)
                                  ELSE Max2(a.ty.max, b.ty.max))
        IN /\ last.ty.min = 0 /\ last.ty.max = M
           /\ 0 <= last.v /\ last.v <= M


\* the static ranges of a shift amount around the bit width of int
ShiftAmountTypes ==
    {safe_base(Int8T, l, u) :
        l \in {0 - 1, 0, 1}, u \in {IntBits - 1, IntBits, IntBits + 1}}
    \cup OperandTypes

\* the static ranges for which a right shift may take the fast path
ShiftRangesProven(T, U) ==
    /\ 0 <= U.min
    /\ U.max < result_base_type("shr", T, U).bits
    /\ 0 <= T.min

\* C26: a right shift takes the fast path only if the static range of the
\* amount lies within [0, bit width of the result type) and the static
\* range of the shifted value is non-negative; for every other pair of
\* static ranges, an upper bound of the amount equal to the bit width of an
\* unsigned result type included, exception_possible() is true.
C26_RightShiftFastPath ==
    last.op = "shr" =>
        /\ last.path = "fast" => ShiftRangesProven(a.ty, b.ty)
        /\ \A U \in ShiftAmountTypes :
              ~ShiftRangesProven(a.ty, U) => exception_possible("shr", a.ty, U)

\* an unsigned int shifted by an amount of the range [0, 10] on the fast
\* path, where the amount range [0, 16] would not be proven
C26_Witness ==
    /\ last.op = "shr" /\ last.path = "fast" /\ last.kind = "value"
    /\ a.ty = safe(UIntT) /\ b.ty = safe_base(Int8T, 0, MaxRange)
    /\ ~ShiftRangesProven(a.ty, safe_base(Int8T, 0, IntBits))
    /\ ShiftRangesProven(a.ty, safe_base(Int8T, 0, IntBits - 1))


\* C27 as stated: intersect(t, u) on two well-formed intervals is true
\* exactly when t and u share a point and false when they are disjoint; so
\* operator== on two ranged values whose static ranges are disjoint answers
\* false from the ranges, without comparing the values.
C27_IntersectExact ==
    (last.op = "intersect" /\ last.kind = "tribool") =>
        LET shared == (a.ty.min .. a.ty.max) \cap (b.ty.min .. b.ty.max)
        IN /\ (last.tri = "true") = (shared # {})
           /\ (last.tri = "false") = (shared = {})
           /\ shared = {} =>
                \A c \in equal_return_value(ep, a.ty, a.ty.min, b.ty, b.ty.min) :
                    c.path = "static" /\ ~c.b


\* C28 as stated: on the checked path of +, -, *, /, %, << and >>, when
\* both operands were cast without a failure, the checked primitive reports
\* a failure and the handler returns, the value returned is the native
\* application of that same operator to the two cast operands.
C28_IgnoredFailureNativeResult ==
    (/\ last.op \in ArithmeticOps /\ last.path = "checked"
     /\ last.kind = "value"
     /\ WithinRange(a.ty, a.v) /\ WithinRange(b.ty, b.v)) =>
        LET R == result_base_type(last.op, a.ty, b.ty)
            C == IF last.op \in {"div", "mod"} THEN temp_base(R, a.ty, b.ty)
                 ELSE R
            fits(v) == TMin(C) <= v /\ v <= TMax(C)
        IN (/\ fits(a.v) /\ fits(b.v)
            /\ exception(checked_operation(last.op, C, a.v, b.v))) =>
               last.v \in {Wrap(R, v) :
                             v \in native_operation(last.op, C, a.v, b.v).vs}


\* the failure kinds the checks of a op b detect: those of the casts of the
\* two operands into the type C of the computation, and that of the checked
\* primitive on a pair of cast operands
DetectedKinds(op) ==
    LET R == result_base_type(op, a.ty, b.ty)
        C == IF op \in {"div", "mod"} THEN temp_base(R, a.ty, b.ty) ELSE R
    IN ({checked_cast(C, a.v).e, checked_cast(C, b.v).e}
        \cup {checked_operation(op, C, r.first, r.second).e :
                r \in casting_helper(ep, C, a.ty, a.v, b.ty, b.v)})
       \ {Success}

\* C29: with the default policy, whose handlers throw, a binary operation
\* or conversion that detects a failure invokes exactly one handler, the
\* handler throws before a result is produced, and no value is constructed;
\* with a policy whose handlers return, a binary operation may invoke
\* handlers more than once, each time with a failure kind that one of its
\* checks detected on its operands.
C29_HandlerInvocations ==
    /\ ep = default_exception_policy =>
         /\ Len(last.log) <= 1
         /\ last.log # << >> => (last.thrown /\ last.kind = "none")
         /\ last.thrown => Len(last.log) = 1
         /\ Len(stored.log) <= 1
         /\ stored.log # << >> => (stored.thrown /\ stored.kind = "none")
    /\ (ep = ignore_all_policy /\ last.op \in ArithmeticOps) =>
         /\ ~last.thrown
         /\ \A i \in DOMAIN last.log :
               /\ last.log[i].e \in DetectedKinds(last.op)
               /\ last.log[i].cat = make_safe_numerics_action(last.log[i].e)
         /\ DetectedKinds(last.op) = {} => last.log = << >>

\* the handlers returned and one operator reported more than once
C29_Witness ==
    /\ ep = ignore_all_policy
    /\ last.op \in ArithmeticOps /\ last.kind = "value"
    /\ Len(last.log) >= 2


\* whether x op y has an exact result the claim speaks of: no division by
\* zero, a shift of a non-negative value by an amount within the width of
\* int, bitwise operators on non-negative operands
HasExactResult(op, x, y) ==
    CASE op \in {"div", "mod"} -> y # 0
      [] op \in {"shl", "shr"} -> x >= 0 /\ 0 <= y /\ y < IntBits
      [] op \in BitwiseOps -> x >= 0 /\ y >= 0
      [] OTHER -> TRUE

\* the exact result of x op y, for every operator
ExactResultOf(op, x, y) ==
    CASE op = "shl" -> ExactMul(x, Pow2(y))
      [] op = "shr" -> x \div Pow2(y)
      [] op \in BitwiseOps -> BitCombine(op, x, y, IntBits)
      [] OTHER -> ExactResult(op, x, y)

\* a division by zero, or a shift by a negative amount or by one of the
\* width of the result type or more
NoResult(op, x, y) ==
    \/ op \in {"div", "mod"} /\ y = 0
    \/ op \in {"shl", "shr"} /\ (y < 0 \/ y >= IntBits)

\* C30 as stated: after a op= b on a ranged value a of range [Min, Max]
\* that held a value of its range: if the exact result of a op b lies in
\* [Min, Max], a holds exactly that result and no failure was reported;
\* otherwise a failure was reported and, when the handler threw, a still
\* holds the value it held.
C30_CompoundAssignment ==
    (last.op # "none" /\ WithinRange(b.ty, b.v)) =>
        IF HasExactResult(last.op, last.before, b.v)
        THEN LET exact == ExactResultOf(last.op, last.before, b.v)
             IN IF WithinRange(a.ty, exact)
                THEN a.v = exact /\ last.log = << >> /\ ~last.thrown
                ELSE /\ last.log # << >>
                     /\ last.thrown => a.v = last.before
        ELSE NoResult(last.op, last.before, b.v) =>
                /\ last.log # << >>
                /\ last.thrown => a.v = last.before

=============================================================================
